---- MODULE Spec2Model ----
(***************************************************************************)
(* Model of broadleaf.py: the seven BroadleafCommerce transaction          *)
(* templates, the *_sim batch functions that sample identifiers and print  *)
(* one trace per loop iteration, and the Transaction record they fill.     *)
(*                                                                         *)
(* Strings are TLA+ strings; keys are built by concatenation exactly as    *)
(* the f-strings of the source build them, integers are rendered in        *)
(* decimal digit by digit, and the claims read identifiers back out of     *)
(* the keys by scanning the characters.                                    *)
(***************************************************************************)
EXTENDS Integers, Sequences, FiniteSets, TLC

VARIABLES pc, sim, num_transactions, iter, invoked, printed, outcome

vars == <<pc, sim, num_transactions, iter, invoked, printed, outcome>>

(***************************************************************************)
(* Bounds of the model.                                                    *)
(***************************************************************************)
\* largest count a batch function is called with
MaxCount == 2
\* longest sku sequence handed directly to decrement_sku
MaxSkuLen == 3

(***************************************************************************)
(* Population sizes and parameters set in the source.                      *)
(***************************************************************************)
num_carts == 100
num_orders_cart == 100
num_items == 100
num_customers == 100
num_ratings == 10
num_orders == 1000
num_customerPayment == 1000
num_offer_codes_save == 1000
num_offer_codes_get == 1000
num_id_types == 100
num_coin_sides == 2
num_skus == 100
sku_batch_size == 4

None == "None"

(***************************************************************************)
(* Python value formatting.                                                *)
(***************************************************************************)
Digit(d) ==
    CASE d = 0 -> "0" [] d = 1 -> "1" [] d = 2 -> "2" [] d = 3 -> "3"
      [] d = 4 -> "4" [] d = 5 -> "5" [] d = 6 -> "6" [] d = 7 -> "7"
      [] d = 8 -> "8" [] d = 9 -> "9"

RECURSIVE str_nat(_)
str_nat(n) ==
    IF n < 10 THEN Digit(n) ELSE str_nat(n \div 10) \o Digit(n % 10)

\* str() of an integer, as an f-string placeholder renders it
str_int(n) ==
    IF n < 0 THEN "-" \o str_nat(0 - n) ELSE str_nat(n)

\* repr of a float that was rounded to two decimals; the float is held as an
\* integer number of hundredths.  Python prints the shortest form that
\* round-trips: trailing zeros are dropped, one fractional digit is kept.
str_float2(cents) ==
    LET a    == IF cents < 0 THEN 0 - cents ELSE cents
        frac == a % 100
    IN  (IF cents < 0 THEN "-" ELSE "")
        \o str_nat(a \div 100) \o "."
        \o (IF frac % 10 = 0
              THEN Digit(frac \div 10)
              ELSE Digit(frac \div 10) \o Digit(frac % 10))

\* str() of a 2-tuple of integers
str_tuple2(a, b) ==
    "(" \o str_int(a) \o ", " \o str_int(b) \o ")"

(***************************************************************************)
(* Transaction: an ordered list of read / write operations.  The class     *)
(* lives in transaction.py; its behaviour here follows the documented      *)
(* output format "<r|w>-<key>".                                            *)
(***************************************************************************)
Transaction == << >>

append_read(t, key) == Append(t, [kind |-> "r", key |-> key])

append_write(t, key) == Append(t, [kind |-> "w", key |-> key])

\* the printed form: one string per operation, in insertion order
render(t) == [k \in 1..Len(t) |-> t[k].kind \o "-" \o t[k].key]

(***************************************************************************)
(* Random sampling.  A draw may return any member of the population; the   *)
(* model follows the members at the edges of the population (for range(n)  *)
(* the least and the greatest) and the members listed in SamplePoints.     *)
(***************************************************************************)
SamplePoints == {758}

\* faulty variant of range: the upper end is included
range_inclusive(n) == 0 .. n

\* range(n)
range(n) == 0 .. (n - 1)

\* np.random.choice(population): the values one draw may return
np_random_choice(population) ==
    {v \in population :
        \/ (v - 1) \notin population
        \/ (v + 1) \notin population
        \/ v \in SamplePoints}

\* np.random.choice(n, size): the arrays one draw may return
np_random_choice_sized(n, size) ==
    [1..size -> np_random_choice(range(n))]

\* round(np.random.normal(200, 50), 2) in hundredths; the normal
\* distribution is unbounded, so negative amounts are possible
AmountSamples == {0 - 325, 20000, 22140}
round_normal_200_50 == AmountSamples

(***************************************************************************)
(* Transaction 1: update cart                                              *)
(***************************************************************************)
\* faulty variant: the order is written only when it differs from the cart id
do_filter_internal_unless_ignored_skip(request, response, chain) ==
    LET cart_id  == request[1]
        order_id == request[2]
        t1 == append_read(Transaction, "cart(" \o str_int(cart_id) \o ")")
    IN  IF order_id = cart_id
          THEN t1
          ELSE append_write(t1, "order(" \o str_int(order_id) \o ")")

do_filter_internal_unless_ignored(request, response, chain) ==
    LET cart_id  == request[1]
        order_id == request[2]
        t0 == Transaction
        t1 == append_read(t0, "cart(" \o str_int(cart_id) \o ")")
        t2 == append_write(t1, "order(" \o str_int(order_id) \o ")")
    IN  t2

(***************************************************************************)
(* Transaction 2: rate item                                                *)
(***************************************************************************)
\* faulty variant: the detail row is written under the item id
rate_item_detail_by_item(item_id, type, customer, rating) ==
    LET t1 == append_read(Transaction, "summary(" \o str_int(item_id) \o ")")
        t2 == append_read(t1, "detail(" \o str_int(customer) \o ")")
        t3 == append_write(t2, "detail(" \o str_int(item_id) \o ")/rating("
                                 \o str_int(rating) \o ")")
        t4 == append_write(t3, "summary(" \o str_int(item_id) \o ")/rating("
                                 \o str_int(rating) \o ")")
    IN  t4

rate_item(item_id, type, customer, rating) ==
    LET t0 == Transaction
        t1 == append_read(t0, "summary(" \o str_int(item_id) \o ")")
        t2 == append_read(t1, "detail(" \o str_int(customer) \o ")")
        t3 == append_write(t2, "detail(" \o str_int(customer) \o ")/rating("
                                 \o str_int(rating) \o ")")
        t4 == append_write(t3, "summary(" \o str_int(item_id) \o ")/rating("
                                 \o str_int(rating) \o ")")
    IN  t4

(***************************************************************************)
(* Transaction 3: order payment                                            *)
(***************************************************************************)
UNCONFIRMED_TRANSACTION_TYPE == "unconfirmed type"

\* faulty variant: the pair is built as (customer_payment, order)
create_order_payment_pair_swapped(order, customer_payment, amount) ==
    LET order_payment == <<customer_payment, order>>
        t1 == append_write(Transaction, "amount(" \o str_float2(amount) \o ")")
        t2 == append_write(t1, UNCONFIRMED_TRANSACTION_TYPE)
        t3 == append_write(t2, "orderPayment("
                 \o str_tuple2(order_payment[1], order_payment[2]) \o ")")
        t4 == append_write(t3, "customerPayment("
                 \o str_int(customer_payment) \o ")")
    IN  t4

create_order_payment_from_customer_payment(order, customer_payment, amount) ==
    LET order_payment == <<order, customer_payment>>
        t0 == Transaction
        t1 == append_write(t0, "amount(" \o str_float2(amount) \o ")")
        t2 == append_write(t1, UNCONFIRMED_TRANSACTION_TYPE)
        t3 == append_write(t2, "orderPayment("
                 \o str_tuple2(order_payment[1], order_payment[2]) \o ")")
        t4 == append_write(t3, "customerPayment("
                 \o str_int(customer_payment) \o ")")
    IN  t4

(***************************************************************************)
(* Transaction 4: save offer code                                          *)
(***************************************************************************)
\* faulty variant: only the offer code is written
save_offer_code_only(offer_code) ==
    append_write(Transaction, "offerCode(" \o str_int(offer_code) \o ")")

save_offer_code(offer_code) ==
    LET t0 == Transaction
        t1 == append_write(t0, "offerCode(" \o str_int(offer_code) \o ")")
        t2 == append_write(t1, "offer(" \o str_int(offer_code) \o ")")
    IN  t2

(***************************************************************************)
(* Transaction 5: look up offer                                            *)
(***************************************************************************)
\* faulty variant: one Transaction object is shared by all calls, so a call
\* appends to what the earlier calls of the batch left in it
lookup_offer_by_code_shared(code) ==
    append_read(IF invoked = << >> THEN Transaction
                ELSE invoked[Len(invoked)].t,
                "offer(" \o str_int(code) \o ")")

lookup_offer_by_code(code) ==
    append_read(Transaction, "offer(" \o str_int(code) \o ")")

(***************************************************************************)
(* Transaction 6: next id.  The source draws np.random.choice(2) inside    *)
(* the function; coin is the value of that draw, chosen by the step that   *)
(* performs the call.                                                      *)
(***************************************************************************)
\* faulty variant: the extra write is made when the coin is 0
find_next_id_coin_inverted(id_type, batch_size, coin) ==
    LET t1 == append_read(Transaction, "id(" \o str_int(id_type) \o ")")
        t2 == IF coin = 0
                THEN append_write(t1, "id(" \o str_int(id_type) \o ")")
                ELSE t1
    IN  append_write(t2, "id(" \o str_int(id_type) \o ")")

find_next_id(id_type, batch_size, coin) ==
    LET t0 == Transaction
        t1 == append_read(t0, "id(" \o str_int(id_type) \o ")")
        t2 == IF coin = 1
                THEN append_write(t1, "id(" \o str_int(id_type) \o ")")
                ELSE t1
        t3 == append_write(t2, "id(" \o str_int(id_type) \o ")")
    IN  t3

(***************************************************************************)
(* Transaction 7: decrement SKU                                            *)
(***************************************************************************)
RECURSIVE decrement_sku_loop(_, _, _)
decrement_sku_loop(t, sku_quantities, k) ==
    IF k > Len(sku_quantities)
      THEN t
      ELSE LET key == "quantity(" \o str_int(sku_quantities[k]) \o ")"
           IN  decrement_sku_loop(append_write(append_read(t, key), key),
                                  sku_quantities, k + 1)

\* faulty variant: the loop starts at the second entry
decrement_sku_skip_first(sku_quantities, context) ==
    decrement_sku_loop(Transaction, sku_quantities, 2)

decrement_sku(sku_quantities, context) ==
    decrement_sku_loop(Transaction, sku_quantities, 1)

(***************************************************************************)
(* The batch functions.  Each one loops num_transactions times; an         *)
(* iteration samples the identifiers, calls the template and prints the    *)
(* transaction it returns.                                                 *)
(*   pc                "idle" before a call, "running" inside a loop,      *)
(*                     "done" when the call has ended                      *)
(*   sim               the function called last                            *)
(*   num_transactions  its argument                                        *)
(*   iter              iterations of its loop completed                    *)
(*   invoked           the template calls it made: sampled arguments,      *)
(*                     values drawn inside the template, returned trace    *)
(*   printed           the lines it printed                                *)
(*   outcome           "none" while running, "returned" or "raised" after  *)
(***************************************************************************)
BatchFunctions ==
    {"update_order_sim", "rate_item_sim", "order_payment_sim",
     "save_offer_sim", "get_offer_sim", "get_next_id_sim",
     "decrement_SKU_sim"}

\* the counts the batch functions are called with; nothing in the source
\* restricts the argument to positive values
Counts == (0 - 1) .. MaxCount

\* faulty variant of the loop test: one iteration too many
range_has_next_inclusive(i, n) == i <= n

\* for _ in range(num_transactions): is there another iteration?
range_has_next(i, n) == i < n

Init ==
    /\ pc = "idle"
    /\ sim = "none"
    /\ num_transactions = 0
    /\ iter = 0
    /\ invoked = << >>
    /\ printed = << >>
    /\ outcome = "none"

\* a call of batch function f with argument n
Call ==
    /\ pc = "idle"
    /\ \E f \in BatchFunctions, n \in Counts :
          /\ sim' = f
          /\ num_transactions' = n
    /\ pc' = "running"
    /\ iter' = 0
    /\ invoked' = << >>
    /\ printed' = << >>
    /\ outcome' = "none"

\* one iteration of the running loop: the template returned t for args (rnd
\* holds what the template drew itself), and t is printed
LoopBody(args, rnd, t) ==
    /\ pc = "running"
    /\ range_has_next(iter, num_transactions)
    /\ invoked' = Append(invoked, [args |-> args, rnd |-> rnd, t |-> t])
    /\ printed' = Append(printed, render(t))
    /\ iter' = iter + 1
    /\ UNCHANGED <<pc, sim, num_transactions, outcome>>

update_order_sim ==
    /\ sim = "update_order_sim"
    /\ \E cart_id \in np_random_choice(range(num_carts)),
          order_id \in np_random_choice(range(num_orders_cart)) :
           LoopBody(<<cart_id, order_id>>, << >>,
                    do_filter_internal_unless_ignored(<<cart_id, order_id>>,
                                                      None, None))

rate_item_sim ==
    /\ sim = "rate_item_sim"
    /\ \E item_id \in np_random_choice(range(num_items)),
          customer \in np_random_choice(range(num_customers)),
          rating \in np_random_choice(range(num_ratings)) :
           LoopBody(<<item_id, customer, rating>>, << >>,
                    rate_item(item_id, None, customer, rating))

order_payment_sim ==
    /\ sim = "order_payment_sim"
    /\ \E order \in np_random_choice(range(num_orders)),
          customer_payment \in np_random_choice(range(num_customerPayment)),
          amount \in round_normal_200_50 :
           LoopBody(<<order, customer_payment, amount>>,
                    << >>,
                    create_order_payment_from_customer_payment(
                        order, customer_payment, amount))

save_offer_sim ==
    /\ sim = "save_offer_sim"
    /\ \E offer_code \in np_random_choice(range(num_offer_codes_save)) :
           LoopBody(<<offer_code>>, << >>,
                    save_offer_code(offer_code))

get_offer_sim ==
    /\ sim = "get_offer_sim"
    /\ \E code \in np_random_choice(range(num_offer_codes_get)) :
           LoopBody(<<code>>, << >>,
                    lookup_offer_by_code(code))

get_next_id_sim ==
    /\ sim = "get_next_id_sim"
    /\ \E id_type \in np_random_choice(range(num_id_types)),
          coin \in np_random_choice(range(num_coin_sides)) :
           LoopBody(<<id_type>>, <<coin>>,
                    find_next_id(id_type, None, coin))

decrement_SKU_sim ==
    /\ sim = "decrement_SKU_sim"
    /\ \E sku_quantities \in np_random_choice_sized(num_skus, sku_batch_size) :
           LoopBody(sku_quantities, << >>,
                    decrement_sku(sku_quantities, None))

\* the loop is exhausted and the batch function returns
Return ==
    /\ pc = "running"
    /\ ~ range_has_next(iter, num_transactions)
    /\ pc' = "done"
    /\ outcome' = "returned"
    /\ UNCHANGED <<sim, num_transactions, iter, invoked, printed>>

\* the sku sequences a caller may hand to decrement_sku directly
SkuInputs ==
    UNION {[1..len -> np_random_choice(range(num_skus))] : len \in 0..MaxSkuLen}

\* a direct call of the template decrement_sku; nothing is printed
decrement_sku_call ==
    /\ pc = "idle"
    /\ \E sku_quantities \in SkuInputs :
          invoked' = <<[args |-> sku_quantities, rnd |-> << >>,
                        t |-> decrement_sku(sku_quantities, None)]>>
    /\ sim' = "decrement_sku"
    /\ num_transactions' = 0
    /\ iter' = 0
    /\ printed' = << >>
    /\ outcome' = "returned"
    /\ pc' = "done"

\* the caller drops what the call left behind and is ready for the next call
Discard ==
    /\ pc = "done"
    /\ pc' = "idle"
    /\ sim' = "none"
    /\ num_transactions' = 0
    /\ iter' = 0
    /\ invoked' = << >>
    /\ printed' = << >>
    /\ outcome' = "none"

Iterate ==
    \/ update_order_sim
    \/ rate_item_sim
    \/ order_payment_sim
    \/ save_offer_sim
    \/ get_offer_sim
    \/ get_next_id_sim
    \/ decrement_SKU_sim

Next ==
    \/ Call
    \/ Iterate
    \/ Return
    \/ decrement_sku_call
    \/ Discard

Spec == Init /\ [][Next]_vars

\* a running loop is never suspended: its next iteration, or its return,
\* eventually happens
FairSpec == Spec /\ WF_vars(Iterate) /\ WF_vars(Return)

TypeOK ==
    /\ pc \in {"idle", "running", "done"}
    /\ sim \in BatchFunctions \cup {"none", "decrement_sku"}
    /\ num_transactions \in Counts
    /\ iter \in 0 .. MaxCount
    /\ Len(printed) <= Len(invoked)
    /\ outcome \in {"none", "returned", "raised"}

(***************************************************************************)
(* Reading traces back: the kinds of a trace, and the integers and the     *)
(* fixed text of a key.                                                    *)
(***************************************************************************)
Kinds(t) == [k \in 1..Len(t) |-> t[k].kind]

Keys(t) == [k \in 1..Len(t) |-> t[k].key]

CharAt(s, i) == SubSeq(s, i, i)

IsDigit(c) == c \in {"0", "1", "2", "3", "4", "5", "6", "7", "8", "9"}

DigitVal(c) ==
    CASE c = "0" -> 0 [] c = "1" -> 1 [] c = "2" -> 2 [] c = "3" -> 3
      [] c = "4" -> 4 [] c = "5" -> 5 [] c = "6" -> 6 [] c = "7" -> 7
      [] c = "8" -> 8 [] c = "9" -> 9

\* the maximal runs of digits of s, in order, as numbers; cur is the run
\* being read (-1 outside a run)
RECURSIVE ScanNums(_, _, _, _)
ScanNums(s, i, cur, acc) ==
    IF i > Len(s)
      THEN (IF cur >= 0 THEN Append(acc, cur) ELSE acc)
      ELSE IF IsDigit(CharAt(s, i))
             THEN ScanNums(s, i + 1,
                           (IF cur < 0 THEN 0 ELSE cur) * 10
                               + DigitVal(CharAt(s, i)),
                           acc)
             ELSE ScanNums(s, i + 1, 0 - 1,
                           IF cur >= 0 THEN Append(acc, cur) ELSE acc)

NumsIn(s) == ScanNums(s, 1, 0 - 1, << >>)

\* s with every maximal run of digits replaced by "#"
RECURSIVE ScanPattern(_, _, _)
ScanPattern(s, i, inrun) ==
    IF i > Len(s)
      THEN ""
      ELSE IF IsDigit(CharAt(s, i))
             THEN (IF inrun THEN "" ELSE "#") \o ScanPattern(s, i + 1, TRUE)
             ELSE CharAt(s, i) \o ScanPattern(s, i + 1, FALSE)

Pattern(s) == ScanPattern(s, 1, FALSE)

Patterns(t) == [k \in 1..Len(t) |-> Pattern(t[k].key)]

\* the template calls made by batch function f in the current call
Calls(f) == IF sim = f THEN {invoked[k] : k \in 1..Len(invoked)} ELSE {}

(***************************************************************************)
(* C1: for every template other than Next-id, as its batch function        *)
(* drives it, the sequence of operation kinds (and so the length) of a     *)
(* trace is fixed: update cart [r,w], rate item [r,r,w,w], order payment   *)
(* [w,w,w,w], save offer [w,w], get offer [r], decrement SKU               *)
(* [r,w,r,w,r,w,r,w]; only the identifiers in the keys differ between      *)
(* calls.                                                                  *)
(***************************************************************************)
ShapeOf(f) ==
    CASE f = "update_order_sim"  -> <<"r", "w">>
      [] f = "rate_item_sim"     -> <<"r", "r", "w", "w">>
      [] f = "order_payment_sim" -> <<"w", "w", "w", "w">>
      [] f = "save_offer_sim"    -> <<"w", "w">>
      [] f = "get_offer_sim"     -> <<"r">>
      [] f = "decrement_SKU_sim" ->
            <<"r", "w", "r", "w", "r", "w", "r", "w">>

C2_NextIdShape ==
    \A c \in Calls("get_next_id_sim") :
        /\ Kinds(c.t) \in {<<"r", "w">>, <<"r", "w", "w">>}
        /\ \A k \in 1..Len(c.t) :
              /\ Pattern(c.t[k].key) = "id(#)"
              /\ NumsIn(c.t[k].key) = c.args
              /\ c.t[k].key = c.t[1].key
        /\ (Len(c.t) = 3) <=> (c.rnd[1] = 1)
        /\ (Len(c.t) = 2) <=> (c.rnd[1] = 0)

\* one batch emitted both shapes
C2_Witness ==
    /\ \E c \in Calls("get_next_id_sim") : Len(c.t) = 2 /\ c.rnd = <<0>>
    /\ \E c \in Calls("get_next_id_sim") : Len(c.t) = 3 /\ c.rnd = <<1>>

(***************************************************************************)
(* C3: decrement_sku(s) returns a trace of length 2 * Len(s) whose         *)
(* operations 2i-1 and 2i (counting from 1) are a read and a write of      *)
(* quantity(s[i]), for any s, repetitions included; driven by              *)
(* decrement_SKU_sim the length is 8.                                      *)
(***************************************************************************)
C3_DecrementSku ==
    \A c \in Calls("decrement_sku") \cup Calls("decrement_SKU_sim") :
        /\ Len(c.t) = 2 * Len(c.args)
        /\ \A i \in 1..Len(c.args) :
              /\ c.t[2 * i - 1].kind = "r"
              /\ c.t[2 * i].kind = "w"
              /\ Pattern(c.t[2 * i - 1].key) = "quantity(#)"
              /\ NumsIn(c.t[2 * i - 1].key) = <<c.args[i]>>
              /\ c.t[2 * i].key = c.t[2 * i - 1].key
        /\ sim = "decrement_SKU_sim" => Len(c.t) = 8

\* a direct call with a repeated sku id followed by a different one
C3_Witness ==
    \E c \in Calls("decrement_sku") :
        /\ Len(c.args) = 3
        /\ c.args[1] = c.args[2]
        /\ c.args[2] # c.args[3]
        /\ Len(c.t) = 6

(***************************************************************************)
(* C4: a batch function called with a non-positive count, and              *)
(* decrement_sku called with an empty sku sequence, end in an error and    *)
(* emit no trace.                                                          *)
(***************************************************************************)
C4_MalformedRejected ==
    /\ (pc = "done" /\ sim \in BatchFunctions /\ num_transactions <= 0) =>
          (outcome = "raised" /\ printed = << >>)
    /\ \A c \in Calls("decrement_sku") :
          c.args = << >> => outcome = "raised"

C6_RateItem ==
    \A c \in Calls("rate_item_sim") :
        LET item     == c.args[1]
            customer == c.args[2]
            rating   == c.args[3]
        IN  /\ Kinds(c.t) = <<"r", "r", "w", "w">>
            /\ Patterns(c.t) = <<"summary(#)", "detail(#)",
                                 "detail(#)/rating(#)",
                                 "summary(#)/rating(#)">>
            /\ NumsIn(c.t[1].key) = <<item>>
            /\ NumsIn(c.t[2].key) = <<customer>>
            /\ NumsIn(c.t[3].key) = <<customer, rating>>
            /\ NumsIn(c.t[4].key) = <<item, rating>>

\* a rating whose item, customer and rating values all differ
C6_Witness ==
    \E c \in Calls("rate_item_sim") :
        /\ c.args[1] # c.args[2]
        /\ c.args[3] # c.args[1]
        /\ c.args[3] # c.args[2]

(***************************************************************************)
(* C7: an Order-payment trace for (order, payment, amount) is four writes  *)
(* and no read: amount(amount), the fixed status key,                      *)
(* orderPayment((order, payment)), customerPayment(payment).               *)
(***************************************************************************)
\* the amount in hundredths read back from the key amount(...)
AmountIn(key) ==
    LET n        == NumsIn(key)
        negative == CharAt(key, 8) = "-"
        onedigit == CharAt(key, Len(key) - 2) = "."
        a        == n[1] * 100 + (IF onedigit THEN n[2] * 10 ELSE n[2])
    IN  IF negative THEN 0 - a ELSE a

C7_OrderPayment ==
    \A c \in Calls("order_payment_sim") :
        LET order   == c.args[1]
            payment == c.args[2]
            amount  == c.args[3]
        IN  /\ Kinds(c.t) = <<"w", "w", "w", "w">>
            /\ Pattern(c.t[1].key) \in {"amount(#.#)", "amount(-#.#)"}
            /\ AmountIn(c.t[1].key) = amount
            /\ c.t[2].key = "unconfirmed type"
            /\ Pattern(c.t[3].key) = "orderPayment((#, #))"
            /\ NumsIn(c.t[3].key) = <<order, payment>>
            /\ Pattern(c.t[4].key) = "customerPayment(#)"
            /\ NumsIn(c.t[4].key) = <<payment>>
            /\ NumsIn(c.t[3].key)[2] = NumsIn(c.t[4].key)[1]

\* a payment whose order id and payment id differ
C7_Witness ==
    \E c \in Calls("order_payment_sim") :
        /\ c.args[1] # c.args[2]
        /\ Len(c.t) = 4

(***************************************************************************)
(* C8: a batch function called with count N >= 0 runs its template once    *)
(* per completed iteration and prints the returned trace right away, so    *)
(* the printed lines are the traces of the calls, in call order; it        *)
(* returns, and when it has returned there are exactly N of them.          *)
(***************************************************************************)
C8_OnePerIteration ==
    sim \in BatchFunctions =>
        /\ Len(invoked) = iter
        /\ printed = [k \in 1..Len(invoked) |-> render(invoked[k].t)]
        /\ (pc = "done" /\ num_transactions >= 0) =>
              /\ outcome = "returned"
              /\ Len(invoked) = num_transactions
              /\ Len(printed) = num_transactions

C8_BatchTerminatesWithNTraces ==
    /\ [] C8_OnePerIteration
    /\ (pc = "running") ~> (pc = "done" /\ outcome = "returned")

\* a batch of the largest count returned after printing that many traces
C8_Witness ==
    /\ pc = "done"
    /\ sim \in BatchFunctions
    /\ outcome = "returned"
    /\ num_transactions = MaxCount
    /\ Len(printed) = MaxCount

RECURSIVE IdsFrom(_, _)
IdsFrom(t, first) ==
    IF first > Len(t) THEN << >>
    ELSE NumsIn(t[first].key) \o IdsFrom(t, first + 1)

NoSign(t, first) ==
    \A k \in first..Len(t) : \A i \in 1..Len(t[k].key) :
        CharAt(t[k].key, i) # "-"

Within(ids, n) == \A i \in 1..Len(ids) : ids[i] >= 0 /\ ids[i] < n

C10_IdsInDomain ==
    /\ \A c \in Calls("update_order_sim") :
          NoSign(c.t, 1) /\ Len(IdsFrom(c.t, 1)) = 2
              /\ Within(IdsFrom(c.t, 1), 100)
    /\ \A c \in Calls("rate_item_sim") :
          /\ NoSign(c.t, 1)
          /\ Within(IdsFrom(c.t, 1), 100)
          /\ Within(<<NumsIn(c.t[3].key)[2], NumsIn(c.t[4].key)[2]>>, 10)
    /\ \A c \in Calls("order_payment_sim") :
          NoSign(c.t, 2) /\ Len(IdsFrom(c.t, 2)) = 3
              /\ Within(IdsFrom(c.t, 2), 1000)
    /\ \A c \in Calls("save_offer_sim") \cup Calls("get_offer_sim") :
          NoSign(c.t, 1) /\ Within(IdsFrom(c.t, 1), 1000)
    /\ \A c \in Calls("get_next_id_sim") :
          NoSign(c.t, 1) /\ Within(IdsFrom(c.t, 1), 100)
    /\ \A c \in Calls("decrement_SKU_sim") :
          /\ Len(c.args) = 4
          /\ NoSign(c.t, 1)
          /\ Len(IdsFrom(c.t, 1)) = 8
          /\ Within(IdsFrom(c.t, 1), 100)

\* a sku batch with a repeated id and with both ends of the domain
C10_Witness ==
    \E c \in Calls("decrement_SKU_sim") :
        /\ c.args[1] = c.args[2]
        /\ c.args[3] = 0
        /\ c.args[4] = 99

====
